---- MODULE Spec2Model ----
(***************************************************************************)
(* go-turnstile: the echo middleware gate (echoturnstile) and the          *)
(* Turnstile verifier client (turnstile).                                  *)
(*                                                                         *)
(* One gate is built from one Config by NewMiddlewareWithConfig and then   *)
(* handles one request, step by step as middleware.Process does: skipper,  *)
(* token extractor, remote-IP extractor, idempotency-key extractor,        *)
(* verifier, downstream handler.  Requests share no state, so one request  *)
(* per behaviour covers the gate.                                          *)
(***************************************************************************)
EXTENDS Naturals, Sequences, FiniteSets

VARIABLES cfg, mw, c, pc, turnstileResponseValue, remoteIP, idempotencyKey,
          resp, err, ret, calls

vars == <<cfg, mw, c, pc, turnstileResponseValue, remoteIP, idempotencyKey,
          resp, err, ret, calls>>

(***************************************************************************)
(* Bounds and program constants                                            *)
(***************************************************************************)
\* longest error-code list a remote response carries in the model
MaxCodes == 3

\* echo.ErrBadRequest.Code
StatusBadRequest == 400

defaultCloudFlareTurnstileHeaderKey == "cf-turnstile-response"
defaultCloudFlareRemoteIPHeader == "CF-Connecting-IP"
HeaderXRequestID == "X-Request-Id"
cloudflareTurnstileUrl == "https://challenges.cloudflare.com/turnstile/v0/siteverify"
invalidSecret == "2x0000000000000000000000000000000AA"

missingInputSecret == "missing-input-secret"
invalidInputSecret == "invalid-input-secret"
missingInputResponse == "missing-input-response"
invalidInputResponse == "invalid-input-response"
invalidWidgetID == "invalid-widget-id"
invalidParsedSecret == "invalid-parsed-secret"
badRequest == "bad-request"
timeoutOrDuplicate == "timeout-or-duplicate"
internalError == "internal-error"

\* the nine codes the client knows
turnstileErrorCode ==
    { missingInputSecret, invalidInputSecret, missingInputResponse,
      invalidInputResponse, invalidWidgetID, invalidParsedSecret,
      badRequest, timeoutOrDuplicate, internalError }

\* what the remote service may send: the known codes and one the client does not know
WireCodes == turnstileErrorCode \cup {"unknown-code"}

RECURSIVE SeqsUpTo(_, _)
SeqsUpTo(S, n) ==
    IF n = 0 THEN {<<>>}
    ELSE LET shorter == SeqsUpTo(S, n - 1)
         IN  shorter \cup {Append(s, x) : s \in {t \in shorter : Len(t) = n - 1}, x \in S}

CodeLists == SeqsUpTo(WireCodes, MaxCodes)

(***************************************************************************)
(* Errors.  An error value is its dynamic type, its HTTP code (HTTPError   *)
(* only), its message as the sequence of its parts (a %v of a code list    *)
(* puts the codes into the message), and the set of sentinels errors.Is    *)
(* finds in its %w chain.                                                  *)
(***************************************************************************)
ErrInvalidRequest == "ErrInvalidRequest"
ErrValidationFailed == "ErrValidationFailed"

NoErr == [type |-> "nil", code |-> 0, message |-> <<>>, is |-> {}]

Errorf(message, wrapped) ==
    [type |-> "error", code |-> 0, message |-> message, is |-> wrapped]

NewHTTPError(code, message) ==
    [type |-> "HTTPError", code |-> code, message |-> message, is |-> {}]

Is(e, target) == e # NoErr /\ target \in e.is

Contains(codes, code) == \E i \in 1..Len(codes) : codes[i] = code

(***************************************************************************)
(* turnstile: the verifier client                                          *)
(***************************************************************************)
NilVerifier == [kind |-> "nil", secret |-> "", url |-> ""]

NewVerifierClient(secret) ==
    [kind |-> "verifierClient", secret |-> secret, url |-> cloudflareTurnstileUrl]

NewVerifierClientWithURL(secret, url) ==
    [kind |-> "verifierClient", secret |-> secret, url |-> url]

\* mapErrorCodes with the validation case tried before the server-error case
mapErrorCodesValidationFirst(codes) ==
    IF Contains(codes, invalidInputResponse) \/ Contains(codes, timeoutOrDuplicate)
    THEN Errorf(<<"invalid, duplicate or expired response:">> \o codes,
                {ErrValidationFailed})
    ELSE IF Contains(codes, internalError)
    THEN Errorf(<<"turnstile server error">>, {})
    ELSE IF \/ Contains(codes, badRequest) \/ Contains(codes, missingInputSecret)
            \/ Contains(codes, invalidInputSecret) \/ Contains(codes, invalidParsedSecret)
            \/ Contains(codes, missingInputSecret) \/ Contains(codes, invalidWidgetID)
            \/ Contains(codes, missingInputResponse)
    THEN Errorf(<<"validation error(s) on turnstile:">> \o codes, {ErrInvalidRequest})
    ELSE Errorf(<<"unhandled turnstile error:">> \o codes, {})

\* mapErrorCodes with the invalid-request case tried before the validation case
mapErrorCodesInvalidRequestFirst(codes) ==
    IF Contains(codes, internalError)
    THEN Errorf(<<"turnstile server error">>, {})
    ELSE IF \/ Contains(codes, badRequest) \/ Contains(codes, missingInputSecret)
            \/ Contains(codes, invalidInputSecret) \/ Contains(codes, invalidParsedSecret)
            \/ Contains(codes, missingInputSecret) \/ Contains(codes, invalidWidgetID)
            \/ Contains(codes, missingInputResponse)
    THEN Errorf(<<"validation error(s) on turnstile:">> \o codes, {ErrInvalidRequest})
    ELSE IF Contains(codes, invalidInputResponse) \/ Contains(codes, timeoutOrDuplicate)
    THEN Errorf(<<"invalid, duplicate or expired response:">> \o codes,
                {ErrValidationFailed})
    ELSE Errorf(<<"unhandled turnstile error:">> \o codes, {})

\* mapErrorCodes with missing-input-response left out of the invalid-request case
mapErrorCodesWithoutMissingResponse(codes) ==
    IF Contains(codes, internalError)
    THEN Errorf(<<"turnstile server error">>, {})
    ELSE IF Contains(codes, invalidInputResponse) \/ Contains(codes, timeoutOrDuplicate)
    THEN Errorf(<<"invalid, duplicate or expired response:">> \o codes,
                {ErrValidationFailed})
    ELSE IF \/ Contains(codes, badRequest) \/ Contains(codes, missingInputSecret)
            \/ Contains(codes, invalidInputSecret) \/ Contains(codes, invalidParsedSecret)
            \/ Contains(codes, missingInputSecret) \/ Contains(codes, invalidWidgetID)
    THEN Errorf(<<"validation error(s) on turnstile:">> \o codes, {ErrInvalidRequest})
    ELSE Errorf(<<"unhandled turnstile error:">> \o codes, {})

\* mapErrorCodes returning nil when no case matches
mapErrorCodesDefaultNil(codes) ==
    IF Contains(codes, internalError)
    THEN Errorf(<<"turnstile server error">>, {})
    ELSE IF Contains(codes, invalidInputResponse) \/ Contains(codes, timeoutOrDuplicate)
    THEN Errorf(<<"invalid, duplicate or expired response:">> \o codes,
                {ErrValidationFailed})
    ELSE IF \/ Contains(codes, badRequest) \/ Contains(codes, missingInputSecret)
            \/ Contains(codes, invalidInputSecret) \/ Contains(codes, invalidParsedSecret)
            \/ Contains(codes, missingInputSecret) \/ Contains(codes, invalidWidgetID)
            \/ Contains(codes, missingInputResponse)
    THEN Errorf(<<"validation error(s) on turnstile:">> \o codes, {ErrInvalidRequest})
    ELSE NoErr

\* the classification of a failed response's error codes: first match wins
mapErrorCodes(codes) ==
    IF Contains(codes, internalError)
    THEN Errorf(<<"turnstile server error">>, {})
    ELSE IF Contains(codes, invalidInputResponse) \/ Contains(codes, timeoutOrDuplicate)
    THEN Errorf(<<"invalid, duplicate or expired response:">> \o codes,
                {ErrValidationFailed})
    ELSE IF \/ Contains(codes, badRequest) \/ Contains(codes, missingInputSecret)
            \/ Contains(codes, invalidInputSecret) \/ Contains(codes, invalidParsedSecret)
            \/ Contains(codes, missingInputSecret) \/ Contains(codes, invalidWidgetID)
            \/ Contains(codes, missingInputResponse)
    THEN Errorf(<<"validation error(s) on turnstile:">> \o codes, {ErrInvalidRequest})
    ELSE Errorf(<<"unhandled turnstile error:">> \o codes, {})

\* a *VerificationResponse: nil, or the decoded success flag and error codes
\* (challenge_ts, hostname, action and cdata are decoded and never read)
NilResponse == [nil |-> TRUE, Success |-> FALSE, ErrorCodes |-> <<>>]

VerificationResponse(success, codes) ==
    [nil |-> FALSE, Success |-> success, ErrorCodes |-> codes]

\* what the one POST can come back with: the transport fails, the body is not
\* the expected JSON, or a response is decoded
NetOutcomes ==
    {[kind |-> "transport", Success |-> FALSE, ErrorCodes |-> <<>>],
     [kind |-> "decode", Success |-> FALSE, ErrorCodes |-> <<>>]}
    \cup {[kind |-> "response", Success |-> s, ErrorCodes |-> codes] :
            s \in BOOLEAN, codes \in CodeLists}

\* http.NewRequestWithContext rejects a URL it cannot parse
testURL == "http://127.0.0.1:8080/siteverify"
ValidURL(url) == url \in {cloudflareTurnstileUrl, testURL}

\* verifierClient.Verify, given what the network does.  json.Marshal of a struct
\* of four strings cannot fail, so that branch has no outcome here.
Verify(t, req, net) ==
    IF ~ValidURL(t.url)
    THEN [resp |-> NilResponse,
          err |-> Errorf(<<"can not create HTTP request:">>, {"url"})]
    ELSE IF net.kind = "transport"
    THEN [resp |-> NilResponse,
          err |-> Errorf(<<"error sending HTTP request:">>, {"transport"})]
    ELSE IF net.kind = "decode"
    THEN [resp |-> NilResponse,
          err |-> Errorf(<<"can not decode turnstile response into JSON:">>, {"json"})]
    ELSE LET r == VerificationResponse(net.Success, net.ErrorCodes)
         IN  IF ~r.Success
             THEN [resp |-> r, err |-> mapErrorCodes(r.ErrorCodes)]
             ELSE [resp |-> r, err |-> NoErr]

(***************************************************************************)
(* echoturnstile: extractors                                               *)
(***************************************************************************)
NilFunc == [kind |-> "nil", headerName |-> ""]

\* echomiddleware.DefaultSkipper, and a skipper a caller may configure
DefaultSkipper == [kind |-> "DefaultSkipper", headerName |-> ""]
SkipHealth == [kind |-> "SkipHealth", headerName |-> ""]

Skip(skipper, ctx) ==
    IF skipper.kind = "SkipHealth" THEN ctx.path = "/health" ELSE FALSE

RequestHeaderTurnstileResponseExtractorFuncWithHeaderName(headerName) ==
    [kind |-> "requestHeaderTurnstileResponseExtractor", headerName |-> headerName]

RequestHeaderTurnstileResponseExtractorFunc ==
    RequestHeaderTurnstileResponseExtractorFuncWithHeaderName(
        defaultCloudFlareTurnstileHeaderKey)

\* requestHeaderTurnstileResponseExtractor.Extract
TurnstileResponseExtract(e, ctx) ==
    LET val == ctx.header[e.headerName]
    IN  IF val = ""
        THEN [val |-> "",
              err |-> NewHTTPError(StatusBadRequest,
                        <<"expected turnstile response in header", e.headerName>>)]
        ELSE [val |-> val, err |-> NoErr]

EchoRemoteIPExtractor == [kind |-> "EchoRemoteIPExtractor", headerName |-> ""]

CloudFlareRequestHeaderRemoteIPExtractor ==
    [kind |-> "requestHeaderRemoteIPExtractor",
     headerName |-> defaultCloudFlareRemoteIPHeader]

\* a RemoteIPExtractorFunc applied: EchoRemoteIPExtractor, or
\* requestHeaderRemoteIPExtractor.Extract
RemoteIPExtract(e, ctx) ==
    IF e.kind = "EchoRemoteIPExtractor"
    THEN [val |-> ctx.realIP, err |-> NoErr]
    ELSE LET val == ctx.header[e.headerName]
         IN  IF val = ""
             THEN [val |-> "",
                   err |-> Errorf(<<"expected turnstile response in header",
                                    e.headerName>>, {"echo.ErrBadRequest"})]
             ELSE [val |-> val, err |-> NoErr]

EchoIdempotencyKeyExtractor == [kind |-> "EchoIdempotencyKeyExtractor", headerName |-> ""]

\* an extractor a caller may configure: the request id is required
RequireRequestID == [kind |-> "RequireRequestID", headerName |-> HeaderXRequestID]

\* what echomiddleware.DefaultRequestIDConfig.Generator may return
GeneratedIDs == {"generated-id-a", "generated-id-b"}

\* an IdempotencyKeyExtractorFunc applied, gen being what the generator returns
IdempotencyKeyExtract(e, ctx, gen) ==
    LET requestId == ctx.header[HeaderXRequestID]
    IN  IF e.kind = "EchoIdempotencyKeyExtractor"
        THEN [val |-> IF requestId = "" THEN gen ELSE requestId, err |-> NoErr]
        ELSE IF requestId = ""
             THEN [val |-> "",
                   err |-> NewHTTPError(StatusBadRequest, <<"request id required">>)]
             ELSE [val |-> requestId, err |-> NoErr]

(***************************************************************************)
(* echoturnstile: the gate                                                 *)
(***************************************************************************)
\* the Configs a caller may pass: every field unset (nil) or set
Configs ==
    [Skipper : {NilFunc, SkipHealth},
     TurnstileVerifier : {NilVerifier, NewVerifierClientWithURL(invalidSecret, testURL)},
     TurnstileResponseExtractorFunc :
        {NilFunc, RequestHeaderTurnstileResponseExtractorFuncWithHeaderName("x-captcha")},
     RemoteIPExtractorFunc : {NilFunc, CloudFlareRequestHeaderRemoteIPExtractor},
     IdempotencyKeyExtractorFunc : {NilFunc, RequireRequestID}]

\* the zero middleware, before construction
NilMiddleware ==
    [skipper |-> NilFunc,
     turnstileVerifier |-> NilVerifier,
     turnstileResponseExtractorFunc |-> NilFunc,
     remoteIPExtractorFunc |-> NilFunc,
     idempotencyKeyExtractorFunc |-> NilFunc]

\* NewMiddlewareWithConfig: each local is declared nil and assigned only in the
\* branch where the Config's field is nil
NewMiddlewareWithConfig(secret, config) ==
    [skipper |->
        IF config.Skipper = NilFunc THEN DefaultSkipper ELSE NilFunc,
     turnstileVerifier |->
        IF config.TurnstileVerifier = NilVerifier
        THEN NewVerifierClient(secret) ELSE NilVerifier,
     turnstileResponseExtractorFunc |->
        IF config.TurnstileResponseExtractorFunc = NilFunc
        THEN RequestHeaderTurnstileResponseExtractorFunc ELSE NilFunc,
     remoteIPExtractorFunc |->
        IF config.RemoteIPExtractorFunc = NilFunc
        THEN EchoRemoteIPExtractor ELSE NilFunc,
     idempotencyKeyExtractorFunc |->
        IF config.IdempotencyKeyExtractorFunc = NilFunc
        THEN EchoIdempotencyKeyExtractor ELSE NilFunc]

\* the inbound requests: path, the headers the extractors read, and what
\* echo's RealIP resolves
HeaderNames ==
    {defaultCloudFlareTurnstileHeaderKey, "x-captcha",
     defaultCloudFlareRemoteIPHeader, HeaderXRequestID}

Requests ==
    [path : {"/", "/health"},
     header : [HeaderNames -> {"", "v"}],
     realIP : {"203.0.113.7"}]

\* what the handler call has returned: nothing yet, the downstream handler's
\* result, an error of the gate, or a panic (a call through a nil func or a
\* nil interface)
NoReturn == [kind |-> "none", err |-> NoErr]
Panic == [kind |-> "panic", err |-> NoErr]
Returned(kind, e) == [kind |-> kind, err |-> e]

\* what the downstream handler may return
HandlerResults == {NoErr, Errorf(<<"handler failed">>, {})}

\* the tail of Process returning every verifier error as it is
VerifyErrorResultUnmasked(e) == e

\* the tail of Process masking every verifier error
VerifyErrorResultMaskAll(e) ==
    NewHTTPError(StatusBadRequest, <<"CloudFlare Turnstile verification failed">>)

\* the tail of Process after a verifier error
VerifyErrorResult(e) ==
    IF Is(e, ErrValidationFailed)
    THEN NewHTTPError(StatusBadRequest, <<"CloudFlare Turnstile verification failed">>)
    ELSE e

Init ==
    /\ cfg \in Configs
    /\ c \in Requests
    /\ mw = NilMiddleware
    /\ pc = "new"
    /\ turnstileResponseValue = ""
    /\ remoteIP = ""
    /\ idempotencyKey = ""
    /\ resp = NilResponse
    /\ err = NoErr
    /\ ret = NoReturn
    /\ calls = <<>>

Construct ==
    /\ pc = "new"
    /\ mw' = NewMiddlewareWithConfig(invalidSecret, cfg)
    /\ pc' = "skipper"
    /\ UNCHANGED <<cfg, c, turnstileResponseValue, remoteIP, idempotencyKey,
                   resp, err, ret, calls>>

\* ends the handler call with what it returns
Return(r) ==
    /\ ret' = r
    /\ pc' = "done"

CallSkipper ==
    /\ pc = "skipper"
    /\ IF mw.skipper = NilFunc
       THEN Return(Panic) /\ UNCHANGED calls
       ELSE /\ calls' = Append(calls, "skipper")
            /\ pc' = IF Skip(mw.skipper, c) THEN "next" ELSE "token"
            /\ UNCHANGED ret
    /\ UNCHANGED <<cfg, mw, c, turnstileResponseValue, remoteIP, idempotencyKey,
                   resp, err>>

\* ExtractToken going on to the next extractor whatever the token extractor returned
ExtractTokenIgnoringError ==
    /\ pc = "token"
    /\ IF mw.turnstileResponseExtractorFunc = NilFunc
       THEN Return(Panic) /\ UNCHANGED <<calls, turnstileResponseValue, err>>
       ELSE LET out == TurnstileResponseExtract(mw.turnstileResponseExtractorFunc, c)
            IN  /\ calls' = Append(calls, "token")
                /\ turnstileResponseValue' = out.val
                /\ err' = out.err
                /\ pc' = "remoteip"
                /\ UNCHANGED ret
    /\ UNCHANGED <<cfg, mw, c, remoteIP, idempotencyKey, resp>>

ExtractToken ==
    /\ pc = "token"
    /\ IF mw.turnstileResponseExtractorFunc = NilFunc
       THEN Return(Panic) /\ UNCHANGED <<calls, turnstileResponseValue, err>>
       ELSE LET out == TurnstileResponseExtract(mw.turnstileResponseExtractorFunc, c)
            IN  /\ calls' = Append(calls, "token")
                /\ turnstileResponseValue' = out.val
                /\ err' = out.err
                /\ IF out.err # NoErr
                   THEN Return(Returned("error", out.err))
                   ELSE pc' = "remoteip" /\ UNCHANGED ret
    /\ UNCHANGED <<cfg, mw, c, remoteIP, idempotencyKey, resp>>

ExtractRemoteIP ==
    /\ pc = "remoteip"
    /\ IF mw.remoteIPExtractorFunc = NilFunc
       THEN Return(Panic) /\ UNCHANGED <<calls, remoteIP, err>>
       ELSE LET out == RemoteIPExtract(mw.remoteIPExtractorFunc, c)
            IN  /\ calls' = Append(calls, "remoteip")
                /\ remoteIP' = out.val
                /\ err' = out.err
                /\ IF out.err # NoErr
                   THEN Return(Returned("error", out.err))
                   ELSE pc' = "idempotency" /\ UNCHANGED ret
    /\ UNCHANGED <<cfg, mw, c, turnstileResponseValue, idempotencyKey, resp>>

ExtractIdempotencyKey ==
    /\ pc = "idempotency"
    /\ IF mw.idempotencyKeyExtractorFunc = NilFunc
       THEN Return(Panic) /\ UNCHANGED <<calls, idempotencyKey, err>>
       ELSE \E gen \in GeneratedIDs :
              LET out == IdempotencyKeyExtract(mw.idempotencyKeyExtractorFunc, c, gen)
              IN  /\ calls' = Append(calls, "idempotency")
                  /\ idempotencyKey' = out.val
                  /\ err' = out.err
                  /\ IF out.err # NoErr
                     THEN Return(Returned("error", out.err))
                     ELSE pc' = "verify" /\ UNCHANGED ret
    /\ UNCHANGED <<cfg, mw, c, turnstileResponseValue, remoteIP, resp>>

VerificationRequest ==
    [Response |-> turnstileResponseValue,
     RemoteIP |-> remoteIP,
     IdempotencyKey |-> idempotencyKey]

\* CallVerify going on to the downstream handler whatever the verifier returned
CallVerifyIgnoringError ==
    /\ pc = "verify"
    /\ IF mw.turnstileVerifier = NilVerifier
       THEN Return(Panic) /\ UNCHANGED <<calls, resp, err>>
       ELSE \E net \in NetOutcomes :
              LET out == Verify(mw.turnstileVerifier, VerificationRequest, net)
              IN  /\ calls' = Append(calls, "verify")
                  /\ resp' = out.resp
                  /\ err' = out.err
                  /\ pc' = "next"
                  /\ UNCHANGED ret
    /\ UNCHANGED <<cfg, mw, c, turnstileResponseValue, remoteIP, idempotencyKey>>

CallVerify ==
    /\ pc = "verify"
    /\ IF mw.turnstileVerifier = NilVerifier
       THEN Return(Panic) /\ UNCHANGED <<calls, resp, err>>
       ELSE \E net \in NetOutcomes :
              LET out == Verify(mw.turnstileVerifier, VerificationRequest, net)
              IN  /\ calls' = Append(calls, "verify")
                  /\ resp' = out.resp
                  /\ err' = out.err
                  /\ IF out.err # NoErr
                     THEN Return(Returned("error", VerifyErrorResult(out.err)))
                     ELSE pc' = "next" /\ UNCHANGED ret
    /\ UNCHANGED <<cfg, mw, c, turnstileResponseValue, remoteIP, idempotencyKey>>

CallNext ==
    /\ pc = "next"
    /\ \E result \in HandlerResults :
         /\ calls' = Append(calls, "next")
         /\ Return(Returned("next", result))
    /\ UNCHANGED <<cfg, mw, c, turnstileResponseValue, remoteIP, idempotencyKey,
                   resp, err>>

Next ==
    \/ Construct
    \/ CallSkipper
    \/ ExtractToken
    \/ ExtractRemoteIP
    \/ ExtractIdempotencyKey
    \/ CallVerify
    \/ CallNext

Spec == Init /\ [][Next]_vars

(***************************************************************************)
(* Properties                                                              *)
(***************************************************************************)
Called(name) == \E i \in 1..Len(calls) : calls[i] = name
Count(name) == Cardinality({i \in 1..Len(calls) : calls[i] = name})

\* the component a Config asks for: its override when set, the default when not
Wanted(config, secret) ==
    [skipper |->
        IF config.Skipper = NilFunc THEN DefaultSkipper ELSE config.Skipper,
     turnstileVerifier |->
        IF config.TurnstileVerifier = NilVerifier
        THEN NewVerifierClient(secret) ELSE config.TurnstileVerifier,
     turnstileResponseExtractorFunc |->
        IF config.TurnstileResponseExtractorFunc = NilFunc
        THEN RequestHeaderTurnstileResponseExtractorFunc
        ELSE config.TurnstileResponseExtractorFunc,
     remoteIPExtractorFunc |->
        IF config.RemoteIPExtractorFunc = NilFunc
        THEN EchoRemoteIPExtractor ELSE config.RemoteIPExtractorFunc,
     idempotencyKeyExtractorFunc |->
        IF config.IdempotencyKeyExtractorFunc = NilFunc
        THEN EchoIdempotencyKeyExtractor ELSE config.IdempotencyKeyExtractorFunc]

FixedRejection ==
    NewHTTPError(StatusBadRequest, <<"CloudFlare Turnstile verification failed">>)

\* the verifier was called and decoded a response with success = false
FailedResponse == Called("verify") /\ ~resp.nil /\ ~resp.Success

\* C1: once the gate is built, each of its five components is the Config's
\* override when that field is set and the default when it is not, so no
\* component is nil.
C1_OverrideOrDefault ==
    pc # "new" =>
        /\ mw = Wanted(cfg, invalidSecret)
        /\ mw.skipper # NilFunc
        /\ mw.turnstileVerifier # NilVerifier
        /\ mw.turnstileResponseExtractorFunc # NilFunc
        /\ mw.remoteIPExtractorFunc # NilFunc
        /\ mw.idempotencyKeyExtractorFunc # NilFunc

\* C2: a request on which the configured skip predicate returns true ends with
\* the downstream handler's result, the handler having been called once with
\* no extractor and no verifier called.
C2_SkipPassesThrough ==
    (pc = "done" /\ cfg.Skipper # NilFunc /\ Skip(cfg.Skipper, c)) =>
        /\ ret.kind = "next"
        /\ calls = <<"skipper", "next">>

C4_ValidationFailedIsMasked ==
    (pc = "done" /\ Called("verify") /\ Is(err, ErrValidationFailed)) =>
        /\ ret.kind = "error"
        /\ ret.err.type = "HTTPError"
        /\ ret.err.code = StatusBadRequest
        /\ ret.err.message = <<"CloudFlare Turnstile verification failed">>
        /\ \A i \in 1..Len(ret.err.message) : ret.err.message[i] \notin WireCodes
        /\ ret.err.is = {}

C4_Witness ==
    /\ pc = "done"
    /\ Is(err, ErrValidationFailed)
    /\ Len(resp.ErrorCodes) >= 2
    /\ Contains(resp.ErrorCodes, timeoutOrDuplicate)
    /\ ret.err = FixedRejection

\* C5: when the verifier has returned an error that does not match
\* ErrValidationFailed, the call has returned exactly that error, which is not
\* the fixed rejection of the ValidationFailed case.
C5_OtherErrorsPropagateUnchanged ==
    (pc = "done" /\ Called("verify") /\ err # NoErr /\ ~Is(err, ErrValidationFailed)) =>
        /\ ret = Returned("error", err)
        /\ ret.err # FixedRejection

C5_Witness ==
    /\ pc = "done"
    /\ Called("verify")
    /\ Is(err, ErrInvalidRequest)
    /\ Contains(resp.ErrorCodes, invalidInputSecret)
    /\ ret.err = err

\* C6: for a failed response whose code list contains internal-error, whatever
\* else it contains and in whatever order, the error is the generic server
\* error and matches neither sentinel.
C6_InternalErrorIsServerError ==
    (FailedResponse /\ Contains(resp.ErrorCodes, internalError)) =>
        /\ err = Errorf(<<"turnstile server error">>, {})
        /\ ~Is(err, ErrValidationFailed)
        /\ ~Is(err, ErrInvalidRequest)

C6_Witness ==
    /\ FailedResponse
    /\ Len(resp.ErrorCodes) >= 2
    /\ resp.ErrorCodes[Len(resp.ErrorCodes)] = internalError
    /\ Contains(resp.ErrorCodes, timeoutOrDuplicate)
    /\ err.message = <<"turnstile server error">>

\* C7: for a failed response whose code list contains invalid-input-response or
\* timeout-or-duplicate and not internal-error, the error matches
\* ErrValidationFailed and not ErrInvalidRequest, also with secret, widget or
\* bad-request codes in the list.
C7_ValidationCodesAreValidationFailed ==
    (FailedResponse
       /\ (Contains(resp.ErrorCodes, invalidInputResponse)
             \/ Contains(resp.ErrorCodes, timeoutOrDuplicate))
       /\ ~Contains(resp.ErrorCodes, internalError)) =>
        /\ Is(err, ErrValidationFailed)
        /\ ~Is(err, ErrInvalidRequest)

C7_Witness ==
    /\ FailedResponse
    /\ Len(resp.ErrorCodes) >= 2
    /\ resp.ErrorCodes[1] = invalidInputSecret
    /\ Contains(resp.ErrorCodes, invalidInputResponse)
    /\ ~Contains(resp.ErrorCodes, internalError)
    /\ Is(err, ErrValidationFailed)

InvalidRequestCodes ==
    { badRequest, missingInputSecret, invalidInputSecret, invalidParsedSecret,
      invalidWidgetID, missingInputResponse }

\* C8: for a failed response whose code list contains one of the six
\* invalid-request codes and none of internal-error, invalid-input-response,
\* timeout-or-duplicate, the error matches ErrInvalidRequest and not
\* ErrValidationFailed.
C8_RequestCodesAreInvalidRequest ==
    (FailedResponse
       /\ (\E code \in InvalidRequestCodes : Contains(resp.ErrorCodes, code))
       /\ ~Contains(resp.ErrorCodes, internalError)
       /\ ~Contains(resp.ErrorCodes, invalidInputResponse)
       /\ ~Contains(resp.ErrorCodes, timeoutOrDuplicate)) =>
        /\ Is(err, ErrInvalidRequest)
        /\ ~Is(err, ErrValidationFailed)

C8_Witness ==
    /\ FailedResponse
    /\ resp.ErrorCodes = <<"unknown-code", missingInputResponse>>
    /\ Is(err, ErrInvalidRequest)

\* C9: for a failed response whose code list is empty or holds only codes
\* outside the nine known ones, Verify has returned a non-nil error that
\* matches neither sentinel, and the request is not passed on.
C9_UnmatchedCodesAreOpaqueError ==
    (FailedResponse
       /\ \A i \in 1..Len(resp.ErrorCodes) : resp.ErrorCodes[i] \notin turnstileErrorCode) =>
        /\ err # NoErr
        /\ ~Is(err, ErrValidationFailed)
        /\ ~Is(err, ErrInvalidRequest)
        /\ ~Called("next")

C9_Witness ==
    /\ FailedResponse
    /\ resp.ErrorCodes = <<>>
    /\ err.message = <<"unhandled turnstile error:">>
    /\ ret.kind = "error"

\* C10: the downstream handler is called at most once, and only after the
\* skipper returned true or after exactly one verifier call that returned a nil
\* error; a call that has ended otherwise has not passed the request on.
C10_DownstreamOnlyWhenAllowed ==
    /\ Count("next") <= 1
    /\ Count("verify") <= 1
    /\ Called("next") =>
         \/ (calls[1] = "skipper" /\ Skip(mw.skipper, c) /\ ~Called("verify"))
         \/ (Count("verify") = 1 /\ err = NoErr /\ ~resp.nil /\ resp.Success)
    /\ pc = "done" =>
         /\ (ret.kind = "next") = Called("next")
         /\ ~Called("next") => ret.kind \in {"error", "panic"}

C10_Witness ==
    /\ pc = "done"
    /\ ret.kind = "next"
    /\ calls = <<"skipper", "token", "remoteip", "idempotency", "verify", "next">>
    /\ resp.Success

====
